---- MODULE Spec2Model ----
(***************************************************************************)
(* Model of the device-facing endpoints of the EsoCore server               *)
(* (src/server/iot/views.py) over the rows of the relational store          *)
(* (Device, TelemetryPacket, TelemetryPoint, FirmwareBundle, SystemEvent,   *)
(* AlertRule, NotificationQueue).  Every handler is split at its database   *)
(* statements: each statement is one atomic step, and steps of different    *)
(* requests interleave freely (Django autocommit, no transaction spans a    *)
(* handler).                                                                *)
(***************************************************************************)
EXTENDS Integers, Sequences, FiniteSets, TLC

VARIABLES
    now,            \* the clock read by timezone.now()
    devices,        \* Device rows, by primary key
    packets,        \* TelemetryPacket rows (the ingest ledger)
    points,         \* TelemetryPoint rows
    bundles,        \* FirmwareBundle rows, in order of created_at
    events,         \* SystemEvent rows
    rules,          \* AlertRule rows
    notifications,  \* NotificationQueue rows
    req             \* the requests in flight and answered, by slot

vars == <<now, devices, packets, points, bundles, events, rules, notifications, req>>

----------------------------------------------------------------------------
\* Bounds of the model.

\* request slots: the number of requests a behaviour contains
MaxReq == 2
\* the longest batch a telemetry_batch request carries
MaxBatch == 2
\* the number of firmware bundles that get created
MaxBundles == 2
\* the clock stops advancing here
MaxTime == 2
\* the reports a device loop sends
MaxReports == 3

----------------------------------------------------------------------------
\* Values.

\* Python's None (an absent header, a NULL column)
None == "None"

\* JSON values of a request body, tagged by type
JNull == [type |-> "null"]
JStr(s) == [type |-> "str", s |-> s]
JNum(n) == [type |-> "num", n |-> n]

\* Strings are sequences of one-character strings, so that str.split and
\* string comparison are computed and not assumed.
V100 == <<"1", ".", "0", ".", "0">>
V120 == <<"1", ".", "2", ".", "0">>
Stable == <<"s", "t", "a", "b", "l", "e">>
Beta == <<"b", "e", "t", "a">>

\* uuid.UUID(s) as UUIDField.to_python computes it: the header strings "u1"
\* and "U1" are two spellings (lower and upper case hex) of the same UUID,
\* "abc" and "xyz" are no UUIDs at all.
InvalidUUID == "invalid"
ParseUUID(s) ==
    CASE s \in {"u1", "U1"} -> "uuid:u1"
      [] s = "u2" -> "uuid:u2"
      [] s = "d1" -> "uuid:d1"
      [] s = "d2" -> "uuid:d2"
      [] s = "d9" -> "uuid:d9"
      [] OTHER -> InvalidUUID

\* the header values a request may carry
DeviceIdHeaders == {None, "d1", "d2", "d9", "xyz"}
ApiKeyHeaders == {"k1", "k2"}
IdempotencyKeyHeaders == {None, "u1", "U1", "u2", "abc"}

\* primary keys of the Device rows the provisioning created
DeviceIds == {"uuid:d1", "uuid:d2"}

\* Device.model values
DeviceModels == {"X1", "X2"}

----------------------------------------------------------------------------
\* Request bodies of telemetry_batch.

\* One reading {timestamp, metric, value}; a key that is absent and a key that
\* is null read the same through item.get(), both are JNull here.
Reading(ts, metric, value) == [timestamp |-> ts, metric |-> metric, value |-> value]

TsValid == JStr("2024-01-01T00:00:00Z")
TsGarbage == JStr("yesterday")
TsImpossible == JStr("2024-02-30T00:00:00Z")
TsNumber == JNum(1704067200)

Readings ==
    { Reading(TsValid, JStr("temp"), JNum(21)),
      Reading(JNull, JStr("temp"), JNum(21)),
      Reading(TsGarbage, JStr("temp"), JNum(21)),
      Reading(TsImpossible, JStr("temp"), JNum(21)),
      Reading(TsNumber, JStr("temp"), JNum(21)),
      Reading(TsValid, JNull, JNum(21)),
      Reading(TsValid, JStr("temp"), JNull) }

\* request.data: a JSON array of len readings, or JSON of another shape.  The
\* readings of an array are drawn from Readings one by one, where the loop of
\* the handler reads them.
ListBody(len) == [kind |-> "list", len |-> len]
NotAList == [kind |-> "object", len |-> 0]
IsList(batch_data) == batch_data.kind = "list"

RequestBodies == {ListBody(len) : len \in 0..MaxBatch} \cup {NotAList}

\* hashlib.sha256(raw_body).hexdigest(): the digest stands for the payload it
\* was computed from.
Sha256(raw_body) == [sha256 |-> raw_body]

\* the Content-SHA256 header: absent, the digest of the body that is sent, or
\* the digest of some other payload
NoContentSha == [absent |-> TRUE]
ContentShaHeaders(body) == {NoContentSha, Sha256(body), Sha256(NotAList)}

\* django.utils.dateparse.parse_datetime: a datetime for a well-formed valid
\* string, None for a string that is not well formed, ValueError for a
\* well-formed string that names no real date.  Datetimes are clock values;
\* the valid sample lies before the clock starts.
ParseDatetime(s) ==
    CASE s = TsValid.s -> [outcome |-> "datetime", dt |-> 0]
      [] s = TsImpossible.s -> [outcome |-> "ValueError", dt |-> 0]
      [] OTHER -> [outcome |-> "None", dt |-> 0]

----------------------------------------------------------------------------
\* Rows and requests.

\* A nullable datetime column is the set of its values: {} is NULL.
Null == {}
At(t) == {t}

\* the rows the database holds before the first request
InitialDevices ==
    [id \in DeviceIds |->
        IF id = "uuid:d1"
        THEN [id |-> id, api_key |-> "k1", model |-> "X1", firmware_version |-> V100,
              status |-> "active", last_seen |-> Null]
        ELSE [id |-> id, api_key |-> "k2", model |-> "X2", firmware_version |-> V100,
              status |-> "active", last_seen |-> Null]]

Slots == 1..MaxReq

NoDevice == [id |-> None]
\* request.data of ota_report; version is "" where the key is absent (None and
\* "" are both false at line 250)
NoData == [status |-> None, version |-> <<>>]
NoResponse == [status |-> 0, body |-> [none |-> TRUE]]
\* no SystemEvent is loaded (the rows' ids start at 1)
NoEvent == [id |-> 0]

\* A request slot.  op names the endpoint, data is the body of ota_report.
\* device, remaining (the readings the loop has not reached
\* yet), accepted and rejected are the handler's local variables; batch_len,
\* lacking, sha_mismatch and replay are history of the request kept for the
\* properties (the handler never reads them).  user and event are request.user
\* and the row get_object() loaded, in the actions of SystemEventViewSet; pk is
\* the primary key in the URL of FirmwareBundleViewSet.devices.
IdleReq ==
    [op |-> None, pc |-> "idle",
     device_id |-> None, api_key |-> None, idempotency_key |-> None,
     content_sha256 |-> NoContentSha,
     device |-> NoDevice, remaining |-> 0, accepted |-> 0, rejected |-> 0,
     data |-> NoData, response |-> NoResponse,
     user |-> None, event |-> NoEvent, pk |-> 0,
     batch_len |-> 0, lacking |-> 0, sha_mismatch |-> FALSE, replay |-> FALSE]

Response(code, body) == [status |-> code, body |-> body]

\* lines 141-145: the outer handler answers 500 with the exception's text
ServerError(text) == Response(500, [error |-> text])

\* str(e) of the ValidationError that a UUID lookup raises: the message quotes
\* the value that was looked up
ValidationErrorText(value) == "['\"" \o value \o "\" is not a valid UUID.']"

\* the request rq ends with this response; its locals are gone
Answered(rq, response) ==
    [rq EXCEPT !.pc = "done", !.response = response,
               !.device = NoDevice, !.remaining = 0,
               !.content_sha256 = NoContentSha, !.event = NoEvent]

\* slots are taken in order
MayArrive(r) ==
    /\ req[r].pc = "idle"
    /\ r > 1 => req[r - 1].pc # "idle"

\* Device.objects.get(id=device_id, api_key=api_key)
GetDevice(device_id, api_key) ==
    IF ParseUUID(device_id) = InvalidUUID
    THEN [outcome |-> "ValidationError", device |-> NoDevice]
    ELSE IF \E id \in DeviceIds : id = ParseUUID(device_id) /\ devices[id].api_key = api_key
         THEN [outcome |-> "found", device |-> devices[ParseUUID(device_id)]]
         ELSE [outcome |-> "DoesNotExist", device |-> NoDevice]

\* device.save(): every column of the row is written from the instance
SaveDevice(device) == [devices EXCEPT ![device.id] = device]

----------------------------------------------------------------------------
\* telemetry_batch (src/server/iot/views.py, lines 32-145)

\* mutant of IsDuplicate: the duplicate check is skipped
IsDuplicate_Skipped(device, idempotency_key) == FALSE

\* mutant of IsDuplicate: the ledger is searched by upload id alone
IsDuplicate_AnyDevice(device, idempotency_key) ==
    \E p \in packets : p.upload_id = ParseUUID(idempotency_key)

\* TelemetryPacket.objects.filter(device=device, upload_id=key).exists()
IsDuplicate(device, idempotency_key) ==
    \E p \in packets : p.device = device.id /\ p.upload_id = ParseUUID(idempotency_key)

\* mutant of UniqueTogether: the table has no uniqueness constraint
UniqueTogether_Missing(device_id, upload_id) == TRUE

\* Meta.unique_together = ["device", "upload_id"]: may this row be inserted?
UniqueTogether(device_id, upload_id) ==
    \A p \in packets : ~(p.device = device_id /\ p.upload_id = upload_id)

\* lines 106-112: the timestamp a reading is stored with, or the exception
\* that parsing it raises
ParsedTimestamp(item) ==
    IF item.timestamp.type = "str"
    THEN LET parsed == ParseDatetime(item.timestamp.s)
         IN  CASE parsed.outcome = "datetime" -> [outcome |-> "datetime", dt |-> parsed.dt]
               [] parsed.outcome = "None" -> [outcome |-> "datetime", dt |-> now]
               [] OTHER -> [outcome |-> "raise", dt |-> now]
    ELSE IF item.timestamp.type = "null"
         THEN [outcome |-> "datetime", dt |-> now]
         ELSE [outcome |-> "not a datetime", dt |-> now]

\* lines 104-123: does the try block of one reading raise?  parse_datetime
\* raises for an impossible date; TelemetryPoint.objects.create raises for a
\* timestamp that is no datetime and for a NULL metric or value (the columns
\* are NOT NULL).
ItemRaises(item) ==
    \/ ParsedTimestamp(item).outcome # "datetime"
    \/ item.metric.type = "null"
    \/ item.value.type = "null"

\* a reading that lacks its metric or its value
Lacking(item) == item.metric.type = "null" \/ item.value.type = "null"

\* the ledger row of (device, upload id) is there and processed
Processed(device_id, idempotency_key) ==
    \E p \in packets :
        /\ p.device = ParseUUID(device_id)
        /\ p.upload_id = ParseUUID(idempotency_key)
        /\ p.status = "processed"

\* mutant of tb_Receive: last_seen of the named device is stamped before the
\* credential is checked
tb_Receive_SeenBeforeAuth(r) ==
    /\ MayArrive(r)
    /\ \E device_id \in DeviceIdHeaders, api_key \in ApiKeyHeaders,
          idempotency_key \in IdempotencyKeyHeaders :
        LET got == GetDevice(device_id, api_key)
            rq == [IdleReq EXCEPT !.op = "telemetry_batch",
                                  !.device_id = device_id,
                                  !.api_key = api_key,
                                  !.idempotency_key = idempotency_key,
                                  !.replay = /\ device_id # None
                                             /\ idempotency_key # None
                                             /\ got.outcome = "found"
                                             /\ Processed(device_id, idempotency_key)]
        IN  /\ req' = [req EXCEPT ![r] =
                IF device_id = None \/ idempotency_key = None
                THEN Answered(rq, Response(400, [error |-> "Missing required headers"]))
                ELSE IF got.outcome = "ValidationError"
                THEN Answered(rq, ServerError(ValidationErrorText(device_id)))
                ELSE IF got.outcome = "DoesNotExist"
                THEN Answered(rq, Response(401, [error |-> "Device not found or invalid API key"]))
                ELSE [rq EXCEPT !.pc = "check_duplicate", !.device = got.device]]
            /\ devices' = IF device_id # None /\ ParseUUID(device_id) \in DeviceIds
                          THEN [devices EXCEPT ![ParseUUID(device_id)].last_seen = At(now)]
                          ELSE devices
    /\ UNCHANGED <<now, packets, points, bundles, events, rules, notifications>>

\* lines 37-56: the headers are read and the device is looked up
tb_Receive(r) ==
    /\ MayArrive(r)
    /\ \E device_id \in DeviceIdHeaders, api_key \in ApiKeyHeaders,
          idempotency_key \in IdempotencyKeyHeaders :
        LET got == GetDevice(device_id, api_key)
            rq == [IdleReq EXCEPT !.op = "telemetry_batch",
                                  !.device_id = device_id,
                                  !.api_key = api_key,
                                  !.idempotency_key = idempotency_key,
                                  !.replay = /\ device_id # None
                                             /\ idempotency_key # None
                                             /\ got.outcome = "found"
                                             /\ Processed(device_id, idempotency_key)]
        IN  req' = [req EXCEPT ![r] =
                IF device_id = None \/ idempotency_key = None
                THEN Answered(rq, Response(400, [error |-> "Missing required headers"]))
                ELSE IF got.outcome = "ValidationError"
                THEN Answered(rq, ServerError(ValidationErrorText(device_id)))
                ELSE IF got.outcome = "DoesNotExist"
                THEN Answered(rq, Response(401, [error |-> "Device not found or invalid API key"]))
                ELSE [rq EXCEPT !.pc = "check_duplicate", !.device = got.device]]
    /\ UNCHANGED <<now, devices, packets, points, bundles, events, rules, notifications>>

\* lines 69-88 once the duplicate check has passed: the body is read and its
\* shape and digest are checked.  request.body raises when request.data has
\* consumed the stream before (body_readable = FALSE), and the except clause
\* of line 87 passes.
BatchChecked(rq, batch_data, content_sha256, body_readable) ==
    LET mismatch == content_sha256 # NoContentSha /\ Sha256(batch_data) # content_sha256
        seen == [rq EXCEPT !.sha_mismatch = mismatch,
                           !.batch_len = batch_data.len]
    IN  IF ~IsList(batch_data)
        THEN Answered(seen, Response(400, [error |-> "Batch data must be a list"]))
        ELSE IF content_sha256 # NoContentSha /\ body_readable /\ mismatch
        THEN Answered(seen, Response(400, [error |-> "Content-SHA256 mismatch"]))
        ELSE [seen EXCEPT !.pc = "create_packet",
                          !.remaining = batch_data.len,
                          !.content_sha256 = content_sha256]

\* mutant of tb_CheckDuplicate: a submission that is refused for its body
\* leaves a ledger row in status failed
tb_CheckDuplicate_LogsRefused(r) ==
    /\ req[r].op = "telemetry_batch"
    /\ req[r].pc = "check_duplicate"
    /\ \/ /\ ParseUUID(req[r].idempotency_key) = InvalidUUID
          /\ req' = [req EXCEPT ![r] =
                        Answered(@, ServerError(ValidationErrorText(req[r].idempotency_key)))]
          /\ packets' = packets
       \/ /\ ParseUUID(req[r].idempotency_key) # InvalidUUID
          /\ IsDuplicate(req[r].device, req[r].idempotency_key)
          /\ req' = [req EXCEPT ![r] =
                        Answered(@, Response(409, [accepted |-> 0, duplicates |-> 1,
                                                    rejected |-> 0]))]
          /\ packets' = packets
       \/ /\ ParseUUID(req[r].idempotency_key) # InvalidUUID
          /\ ~IsDuplicate(req[r].device, req[r].idempotency_key)
          /\ \E batch_data \in RequestBodies :
             \E content_sha256 \in ContentShaHeaders(batch_data), body_readable \in BOOLEAN :
                LET checked == BatchChecked(req[r], batch_data, content_sha256, body_readable)
                IN  /\ req' = [req EXCEPT ![r] = checked]
                    /\ packets' =
                          IF checked.pc = "done"
                          THEN packets \cup
                                 {[id |-> r, device |-> req[r].device.id,
                                   upload_id |-> ParseUUID(req[r].idempotency_key),
                                   checksum |-> content_sha256, status |-> "failed",
                                   record_count |-> 0, processed_at |-> Null]}
                          ELSE packets
    /\ UNCHANGED <<now, devices, points, bundles, events, rules, notifications>>

\* lines 58-88
tb_CheckDuplicate(r) ==
    /\ req[r].op = "telemetry_batch"
    /\ req[r].pc = "check_duplicate"
    /\ \/ /\ ParseUUID(req[r].idempotency_key) = InvalidUUID
          /\ req' = [req EXCEPT ![r] =
                        Answered(@, ServerError(ValidationErrorText(req[r].idempotency_key)))]
       \/ /\ ParseUUID(req[r].idempotency_key) # InvalidUUID
          /\ IsDuplicate(req[r].device, req[r].idempotency_key)
          /\ req' = [req EXCEPT ![r] =
                        Answered(@, Response(409, [accepted |-> 0, duplicates |-> 1,
                                                    rejected |-> 0]))]
       \/ /\ ParseUUID(req[r].idempotency_key) # InvalidUUID
          /\ ~IsDuplicate(req[r].device, req[r].idempotency_key)
          /\ \E batch_data \in RequestBodies :
             \E content_sha256 \in ContentShaHeaders(batch_data), body_readable \in BOOLEAN :
                req' = [req EXCEPT ![r] =
                            BatchChecked(@, batch_data, content_sha256, body_readable)]
    /\ UNCHANGED <<now, devices, packets, points, bundles, events, rules, notifications>>

\* lines 90-97: the ledger row is inserted; the insert raises IntegrityError
\* when the row would break the uniqueness of (device, upload_id)
tb_CreatePacket(r) ==
    /\ req[r].op = "telemetry_batch"
    /\ req[r].pc = "create_packet"
    /\ LET upload_id == ParseUUID(req[r].idempotency_key)
       IN  IF UniqueTogether(req[r].device.id, upload_id)
           THEN /\ packets' = packets \cup
                        {[id |-> r, device |-> req[r].device.id, upload_id |-> upload_id,
                          checksum |-> req[r].content_sha256, status |-> "processing",
                          record_count |-> req[r].batch_len, processed_at |-> Null]}
                /\ req' = [req EXCEPT ![r].pc = "process_items"]
           ELSE /\ packets' = packets
                /\ req' = [req EXCEPT ![r] =
                              Answered(@, ServerError("IntegrityError: duplicate key"))]
    /\ UNCHANGED <<now, devices, points, bundles, events, rules, notifications>>

\* mutant of tb_ProcessItem: update_or_create on (device, metric), the new
\* reading takes the place of the device's earlier point of the metric
tb_ProcessItem_Upsert(r) ==
    /\ req[r].op = "telemetry_batch"
    /\ req[r].pc = "process_items"
    /\ req[r].remaining > 0
    /\ \E item \in Readings :
        LET idx == req[r].batch_len - req[r].remaining + 1
            read == [req[r] EXCEPT !.remaining = @ - 1,
                                   !.lacking = @ + (IF Lacking(item) THEN 1 ELSE 0)]
        IN  IF ItemRaises(item)
            THEN /\ points' = points
                 /\ req' = [req EXCEPT ![r] = [read EXCEPT !.rejected = @ + 1]]
            ELSE /\ points' =
                        {pt \in points : ~(pt.device = req[r].device.id
                                            /\ pt.metric = item.metric.s)} \cup
                        {[req |-> r, idx |-> idx, device |-> req[r].device.id,
                          timestamp |-> ParsedTimestamp(item).dt,
                          metric |-> item.metric.s, value |-> item.value.n]}
                 /\ req' = [req EXCEPT ![r] = [read EXCEPT !.accepted = @ + 1]]
    /\ UNCHANGED <<now, devices, packets, bundles, events, rules, notifications>>

\* lines 103-123: one pass of the loop
tb_ProcessItem(r) ==
    /\ req[r].op = "telemetry_batch"
    /\ req[r].pc = "process_items"
    /\ req[r].remaining > 0
    /\ \E item \in Readings :
        LET idx == req[r].batch_len - req[r].remaining + 1
            read == [req[r] EXCEPT !.remaining = @ - 1,
                                   !.lacking = @ + (IF Lacking(item) THEN 1 ELSE 0)]
        IN  IF ItemRaises(item)
            THEN /\ points' = points
                 /\ req' = [req EXCEPT ![r] = [read EXCEPT !.rejected = @ + 1]]
            ELSE /\ points' = points \cup
                         {[req |-> r, idx |-> idx, device |-> req[r].device.id,
                           timestamp |-> ParsedTimestamp(item).dt,
                           metric |-> item.metric.s, value |-> item.value.n]}
                 /\ req' = [req EXCEPT ![r] = [read EXCEPT !.accepted = @ + 1]]
    /\ UNCHANGED <<now, devices, packets, bundles, events, rules, notifications>>

\* mutant of tb_SavePacket: the update is written to every ledger row of the
\* device
tb_SavePacket_WholeDevice(r) ==
    /\ req[r].op = "telemetry_batch"
    /\ req[r].pc = "process_items"
    /\ req[r].remaining = 0
    /\ packets' = {IF p.device = req[r].device.id
                   THEN [p EXCEPT !.status = "processed",
                                  !.record_count = req[r].accepted,
                                  !.processed_at = At(now)]
                   ELSE p : p \in packets}
    /\ req' = [req EXCEPT ![r].pc = "save_device"]
    /\ UNCHANGED <<now, devices, points, bundles, events, rules, notifications>>

\* lines 125-129: packet.save()
tb_SavePacket(r) ==
    /\ req[r].op = "telemetry_batch"
    /\ req[r].pc = "process_items"
    /\ req[r].remaining = 0
    /\ packets' = {IF p.id = r
                   THEN [p EXCEPT !.status = "processed",
                                  !.record_count = req[r].accepted,
                                  !.processed_at = At(now)]
                   ELSE p : p \in packets}
    /\ req' = [req EXCEPT ![r].pc = "save_device"]
    /\ UNCHANGED <<now, devices, points, bundles, events, rules, notifications>>

\* mutant of tb_SaveDevice: the device is saved as it was loaded
tb_SaveDevice_NoLastSeen(r) ==
    /\ req[r].op = "telemetry_batch"
    /\ req[r].pc = "save_device"
    /\ devices' = SaveDevice(req[r].device)
    /\ req' = [req EXCEPT ![r] =
                  Answered(@, Response(200, [accepted |-> req[r].accepted, duplicates |-> 0,
                                             rejected |-> req[r].rejected]))]
    /\ UNCHANGED <<now, packets, points, bundles, events, rules, notifications>>

\* lines 131-139: device.save() and the response
tb_SaveDevice(r) ==
    /\ req[r].op = "telemetry_batch"
    /\ req[r].pc = "save_device"
    /\ devices' = SaveDevice([req[r].device EXCEPT !.last_seen = At(now)])
    /\ req' = [req EXCEPT ![r] =
                  Answered(@, Response(200, [accepted |-> req[r].accepted, duplicates |-> 0,
                                             rejected |-> req[r].rejected]))]
    /\ UNCHANGED <<now, packets, points, bundles, events, rules, notifications>>

\* time passes
Tick ==
    /\ now < MaxTime
    /\ now' = now + 1
    /\ UNCHANGED <<devices, packets, points, bundles, events, rules, notifications, req>>

----------------------------------------------------------------------------
\* The ingestion specification: telemetry_batch requests against the ledger.

Init ==
    /\ now = 1
    /\ devices = InitialDevices
    /\ packets = {}
    /\ points = {}
    /\ bundles = <<>>
    /\ events = {}
    /\ rules = {}
    /\ notifications = {}
    /\ req = [r \in Slots |-> IdleReq]

Next ==
    \E r \in Slots :
        \/ tb_Receive(r)
        \/ tb_CheckDuplicate(r)
        \/ tb_CreatePacket(r)
        \/ tb_ProcessItem(r)
        \/ tb_SavePacket(r)
        \/ tb_SaveDevice(r)

Spec == Init /\ [][Next]_vars

----------------------------------------------------------------------------
\* Properties of ingestion.

\* the request was sent by a provisioned device with its own credential and
\* carries an idempotency key
Authenticated(rq) ==
    /\ rq.op = "telemetry_batch"
    /\ rq.device_id # None
    /\ rq.idempotency_key # None
    /\ GetDevice(rq.device_id, rq.api_key).outcome = "found"

\* two requests of the same device with the same upload id
SamePair(r1, r2) ==
    /\ Authenticated(req[r1])
    /\ Authenticated(req[r2])
    /\ ParseUUID(req[r1].idempotency_key) # InvalidUUID
    /\ ParseUUID(req[r1].device_id) = ParseUUID(req[r2].device_id)
    /\ ParseUUID(req[r1].idempotency_key) = ParseUUID(req[r2].idempotency_key)

PacketsBy(r) == {p \in packets : p.id = r}
PointsBy(r) == {pt \in points : pt.req = r}

DuplicateResponse == Response(409, [accepted |-> 0, duplicates |-> 1, rejected |-> 0])

\* C1: a submission that arrives when the ledger row of its (device, upload
\* id) is processed writes no TelemetryPacket and no TelemetryPoint row, and
\* is answered 409 with accepted=0, duplicates=1, rejected=0.
C1_IdempotentIngestion ==
    \A r \in Slots :
        req[r].replay =>
            /\ PacketsBy(r) = {}
            /\ PointsBy(r) = {}
            /\ req[r].pc \in {"check_duplicate", "done"}
            /\ req[r].pc = "done" => req[r].response = DuplicateResponse

\* a resubmission has been answered, and the first submission wrote points
C1_Witness ==
    \E r \in Slots :
        /\ req[r].replay
        /\ req[r].pc = "done"
        /\ \E q \in Slots : SamePair(q, r) /\ PointsBy(q) # {}

\* C2: a (device, upload id) has at most one ledger row, and of two requests
\* that carry the same (device, upload id) at most one writes points, in every
\* interleaving.
C2_NoDoubleWrite ==
    /\ \A p, q \in packets :
          (p.device = q.device /\ p.upload_id = q.upload_id) => p = q
    /\ \A r1, r2 \in Slots :
          (r1 # r2 /\ SamePair(r1, r2)) => (PointsBy(r1) = {} \/ PointsBy(r2) = {})

\* both requests passed the duplicate check before either inserted the row;
\* one of them went on to write points
C2_Witness ==
    \E r1, r2 \in Slots :
        /\ r1 # r2
        /\ SamePair(r1, r2)
        /\ PointsBy(r1) # {}
        /\ req[r2].pc = "done"
        /\ req[r2].response.status = 500

\* C3: the request that loses the race for the ledger row (its insert breaks
\* the uniqueness of (device, upload_id)) is answered as a duplicate.
C3_ConflictIsDuplicate ==
    [][\A r \in Slots :
          ( /\ req[r].pc = "create_packet"
            /\ ~UniqueTogether(req[r].device.id, ParseUUID(req[r].idempotency_key))
            /\ req'[r].pc = "done" )
          => req'[r].response = DuplicateResponse]_vars

\* C4: a request whose Content-SHA256 header differs from the digest of its
\* payload writes no row and is answered 400.
C4_IntegrityAllOrNothing ==
    \A r \in Slots :
        req[r].sha_mismatch =>
            /\ PacketsBy(r) = {}
            /\ PointsBy(r) = {}
            /\ req[r].pc = "done" => req[r].response.status = 400

\* C5: a first submission of N readings of which k lack a metric or a value
\* writes N-k points, answers accepted=N-k, rejected=k, duplicates=0 and
\* leaves N-k as the record_count of its ledger row.
C5_PartialAcceptance ==
    \A r \in Slots :
        (req[r].pc = "done" /\ req[r].response.status = 200) =>
            LET n == req[r].batch_len
                k == req[r].lacking
            IN  /\ req[r].response.body =
                       [accepted |-> n - k, duplicates |-> 0, rejected |-> k]
                /\ Cardinality(PointsBy(r)) = n - k
                /\ \A p \in PacketsBy(r) : p.record_count = n - k

\* C6: an authenticated request with any idempotency key is never answered
\* with a server error: it is processed (200), a duplicate (409) or refused
\* for its body (400).
C6_AnyKeyAccepted ==
    \A r \in Slots :
        (req[r].pc = "done" /\ Authenticated(req[r])) =>
            req[r].response.status \in {200, 400, 409}

\* C14: a reading that has its metric and its value is accepted whatever its
\* timestamp is: the pass of the loop that reads it writes one point, stamped
\* with the parsed timestamp or with the time of ingestion.
C14_TimestampNeverRejects ==
    [][\A r \in Slots :
          ( /\ req[r].op = "telemetry_batch"
            /\ req[r].pc = "process_items"
            /\ req'[r].remaining = req[r].remaining - 1
            /\ req'[r].lacking = req[r].lacking )
          => /\ req'[r].accepted = req[r].accepted + 1
             /\ \E pt \in points' \ points :
                   /\ pt.req = r
                   /\ pt.timestamp \in {ParseDatetime(TsValid.s).dt, now}]_vars

\* C15: a request that inserted its ledger row (a first submission that
\* passed the duplicate, shape and integrity checks) is answered only once the
\* row is processed with processed_at set and record_count equal to the
\* accepted count, and its answer comes with the device's last_seen set to
\* the time of the request, however many readings were rejected.
C15_FirstSubmissionCompletes ==
    [][\A r \in Slots :
          ( /\ req[r].op = "telemetry_batch"
            /\ PacketsBy(r) # {}
            /\ req[r].pc # "done"
            /\ req'[r].pc = "done" )
          => /\ req'[r].response.status = 200
             /\ req'[r].response.body.accepted + req'[r].response.body.rejected
                    = req[r].batch_len
             /\ \E p \in packets' :
                   /\ p.id = r
                   /\ p.status = "processed"
                   /\ p.processed_at # Null
                   /\ p.record_count = req'[r].response.body.accepted
             /\ devices'[req[r].device.id].last_seen = At(now)]_vars

\* a batch of which every reading was rejected is processed with record_count
\* 0, and so is an empty batch
C15_Witness ==
    \E r1, r2 \in Slots :
        /\ req[r1].pc = "done" /\ req[r1].response.status = 200
        /\ req[r1].batch_len > 0 /\ req[r1].response.body.accepted = 0
        /\ req[r2].pc = "done" /\ req[r2].response.status = 200
        /\ req[r2].batch_len = 0
        /\ \A p \in packets : p.status = "processed" /\ p.record_count = 0
        /\ Cardinality(packets) = 2
        /\ \E id \in DeviceIds : devices[id].last_seen # Null

\* C20: the status of a ledger row only moves forward (pending, processing,
\* then processed or failed), no row disappears, and a row that is processed
\* or failed is never changed again.
C20_LedgerMovesForward ==
    [][\A p \in packets :
          \E q \in packets' :
              /\ q.id = p.id
              /\ p.status \in {"processed", "failed"} => q = p
              /\ p.status # q.status =>
                    <<p.status, q.status>> \in
                        { <<"pending", "processing">>, <<"pending", "failed">>,
                          <<"processing", "processed">>, <<"processing", "failed">> }]_vars

\* a device has two processed ledger rows with different counts: the second
\* request ran to its end after the first row was processed
C20_Witness ==
    \E p, q \in packets :
        /\ p.device = q.device
        /\ p.status = "processed"
        /\ q.status = "processed"
        /\ p.record_count # q.record_count
        /\ \A r \in Slots : req[r].pc = "done"

----------------------------------------------------------------------------
\* Firmware bundles, ota_check and ota_report
\* (src/server/iot/views.py, lines 181-260)

\* s.split('.')[0]
RECURSIVE FirstComponent(_)
FirstComponent(s) ==
    IF s = <<>> \/ Head(s) = "." THEN <<>>
    ELSE <<Head(s)>> \o FirstComponent(Tail(s))

\* the versions a FirmwareBundle row or a device report names
FirmwareVersions == {V100, V120}
BundleChannels == {Stable, Beta}
SupportedModels == {{model} : model \in DeviceModels}

\* FirmwareBundleViewSet.create: version is unique; created_at is the place
\* in the sequence
CreateBundle ==
    /\ Len(bundles) < MaxBundles
    /\ \E version \in FirmwareVersions, channel \in BundleChannels,
          supported_models \in SupportedModels :
        /\ \A i \in 1..Len(bundles) : bundles[i].version # version
        /\ bundles' = Append(bundles,
                [version |-> version, hash |-> [image |-> version], channel |-> channel,
                 supported_models |-> supported_models])
    /\ UNCHANGED <<now, devices, packets, points, events, rules, notifications, req>>

\* mutant of LatestFirmware: order_by('created_at'), the oldest match first
LatestFirmware_Oldest(device) ==
    LET matching == SelectSeq(bundles,
            LAMBDA b : /\ device.model \in b.supported_models
                       /\ b.channel \in {Stable, FirstComponent(device.firmware_version)})
    IN  IF matching = <<>> THEN {} ELSE {matching[1]}

\* lines 192-195: filter(...).order_by('-created_at').first(); the set holds
\* the row, and is empty for None
LatestFirmware(device) ==
    LET matching == SelectSeq(bundles,
            LAMBDA b : /\ device.model \in b.supported_models
                       /\ b.channel \in {Stable, FirstComponent(device.firmware_version)})
    IN  IF matching = <<>> THEN {} ELSE {matching[Len(matching)]}

\* lines 197-209
OtaCheckResponse(device) ==
    IF \E firmware \in LatestFirmware(device) : firmware.version # device.firmware_version
    THEN LET firmware == CHOOSE f \in LatestFirmware(device) : TRUE
         IN  Response(200, [available |-> TRUE, version |-> firmware.version,
                            hash |-> firmware.hash])
    ELSE Response(200, [available |-> FALSE, current_version |-> device.firmware_version])

\* lines 185-189 and 211-215: the device is looked up; a device id that is no
\* UUID raises ValidationError, which nothing in the view catches
oc_Receive(r) ==
    /\ MayArrive(r)
    /\ \E device_id \in DeviceIdHeaders, api_key \in ApiKeyHeaders :
        LET got == GetDevice(device_id, api_key)
            rq == [IdleReq EXCEPT !.op = "ota_check", !.device_id = device_id,
                                  !.api_key = api_key]
        IN  req' = [req EXCEPT ![r] =
                IF device_id # None /\ got.outcome = "ValidationError"
                THEN Answered(rq, ServerError("unhandled ValidationError"))
                ELSE IF device_id = None \/ got.outcome = "DoesNotExist"
                THEN Answered(rq, Response(404, [error |-> "Device not found"]))
                ELSE [rq EXCEPT !.pc = "select_firmware", !.device = got.device]]
    /\ UNCHANGED <<now, devices, packets, points, bundles, events, rules, notifications>>

\* lines 191-209
oc_SelectFirmware(r) ==
    /\ req[r].op = "ota_check"
    /\ req[r].pc = "select_firmware"
    /\ req' = [req EXCEPT ![r] = Answered(@, OtaCheckResponse(req[r].device))]
    /\ UNCHANGED <<now, devices, packets, points, bundles, events, rules, notifications>>

\* get_config, lines 152-178: the device is looked up and its configuration
\* is returned; no device has a DeviceConfiguration row here, so the answer
\* is the empty configuration of lines 167-172
gc_Receive(r) ==
    /\ MayArrive(r)
    /\ \E device_id \in DeviceIdHeaders, api_key \in ApiKeyHeaders :
        LET got == GetDevice(device_id, api_key)
            rq == [IdleReq EXCEPT !.op = "get_config", !.device_id = device_id,
                                  !.api_key = api_key]
        IN  req' = [req EXCEPT ![r] =
                IF device_id # None /\ got.outcome = "ValidationError"
                THEN Answered(rq, ServerError("unhandled ValidationError"))
                ELSE IF device_id = None \/ got.outcome = "DoesNotExist"
                THEN Answered(rq, Response(404, [error |-> "Device not found"]))
                ELSE Answered(rq, Response(200, [sampling_rates |-> {}, thresholds |-> {},
                                                 ntp_servers |-> <<>>, endpoints |-> {}]))]
    /\ UNCHANGED <<now, devices, packets, points, bundles, events, rules, notifications>>

\* the bodies of ota_report; the status is None where the key is absent
ReportStatuses == {"completed", "failed", "rollback", "started", None}
ReportData == [status : ReportStatuses, version : FirmwareVersions \cup {<<>>}]

\* line 233: f'ota_{status_update}'
OtaEventType(status_update) ==
    CASE status_update = "completed" -> "ota_completed"
      [] status_update = "failed" -> "ota_failed"
      [] status_update = "rollback" -> "ota_rollback"
      [] status_update = "started" -> "ota_started"
      [] OTHER -> "ota_None"

\* mutant of OtaSeverity: a rollback is not taken for a failure
OtaSeverity_FailedOnly(status_update) ==
    IF status_update = "failed" THEN "high" ELSE "low"

\* lines 234-236
OtaSeverity(status_update) ==
    IF status_update \in {"failed", "rollback"} THEN "high" ELSE "low"

\* lines 222-230: the device is looked up and the body is read
or_Receive(r) ==
    /\ MayArrive(r)
    /\ \E device_id \in DeviceIdHeaders, api_key \in ApiKeyHeaders, data \in ReportData :
        LET got == GetDevice(device_id, api_key)
            rq == [IdleReq EXCEPT !.op = "ota_report", !.device_id = device_id,
                                  !.api_key = api_key]
        IN  req' = [req EXCEPT ![r] =
                IF device_id # None /\ got.outcome = "ValidationError"
                THEN Answered(rq, ServerError("unhandled ValidationError"))
                ELSE IF device_id = None \/ got.outcome = "DoesNotExist"
                THEN Answered(rq, Response(404, [error |-> "Device not found"]))
                ELSE [rq EXCEPT !.pc = "create_event", !.device = got.device,
                                !.data = data]]
    /\ UNCHANGED <<now, devices, packets, points, bundles, events, rules, notifications>>

\* the AlertRule rows the operators configured: a global rule, a rule of one
\* device, and a rule that is switched off
ConfiguredRules ==
    { [id |-> 1, device |-> None, asset |-> None, event_type |-> "ota_failed",
       is_active |-> TRUE, notification_channels |-> {"email", "sms"},
       cooldown_minutes |-> 2],
      [id |-> 2, device |-> "uuid:d2", asset |-> None, event_type |-> "ota_completed",
       is_active |-> TRUE, notification_channels |-> {"webhook"},
       cooldown_minutes |-> 1],
      [id |-> 3, device |-> None, asset |-> None, event_type |-> "ota_rollback",
       is_active |-> FALSE, notification_channels |-> {"email"},
       cooldown_minutes |-> 1] }

\* the rule is active, has the event's type and a scope that covers the
\* event's device (no device has an asset here)
RuleMatches(rule, event) ==
    /\ rule.is_active
    /\ rule.event_type = event.event_type
    /\ rule.device \in {None, event.device}
    /\ rule.asset = None

\* mutant of EnqueuedOnCreate: every matching rule enqueues one pending entry
\* per channel, with no look at the cooldown window
EnqueuedOnCreate_NoCooldown(event) ==
    { [event |-> event.id, alert_rule |-> rc[1].id, channel |-> rc[2],
       status |-> "pending", retry_count |-> 0, created_at |-> now]
      : rc \in { x \in rules \X UNION {m.notification_channels : m \in rules}
                 : RuleMatches(x[1], event) /\ x[2] \in x[1].notification_channels } }

\* lines 238-247: the NotificationQueue rows that creating a SystemEvent
\* brings about.  SystemEvent.objects.create is a plain insert: nothing in
\* the repository listens to it or reads AlertRule, and no code creates a
\* NotificationQueue row.
EnqueuedOnCreate(event) == {}

\* lines 238-247: the row SystemEvent.objects.create inserts; status,
\* resolved_at and resolved_by take the defaults of the model
OtaEvent(id, device_id, data, created_at) ==
    [id |-> id, device |-> device_id,
     event_type |-> OtaEventType(data.status),
     severity |-> OtaSeverity(data.status),
     status |-> "active", created_at |-> created_at,
     ota_version |-> data.version,
     resolved_at |-> Null, resolved_by |-> None]

\* mutant of UpdatesFirmware: the status of the report is not looked at
UpdatesFirmware_AnyStatus(data) == data.version # <<>>

\* line 250: status_update == 'completed' and version
UpdatesFirmware(data) == data.status = "completed" /\ data.version # <<>>

\* lines 232-247: the SystemEvent row is inserted
or_CreateEvent(r) ==
    /\ req[r].op = "ota_report"
    /\ req[r].pc = "create_event"
    /\ LET event == OtaEvent(r, req[r].device.id, req[r].data, now)
       IN  /\ events' = events \cup {event}
           /\ notifications' = notifications \cup EnqueuedOnCreate(event)
           /\ req' = [req EXCEPT ![r] =
                         IF UpdatesFirmware(req[r].data)
                         THEN [@ EXCEPT !.pc = "save_device"]
                         ELSE Answered(@, Response(200, [status |-> "reported"]))]
    /\ UNCHANGED <<now, devices, packets, points, bundles, rules>>

\* lines 249-254: device.save() with the reported version
or_SaveDevice(r) ==
    /\ req[r].op = "ota_report"
    /\ req[r].pc = "save_device"
    /\ devices' = SaveDevice([req[r].device EXCEPT !.firmware_version = req[r].data.version])
    /\ req' = [req EXCEPT ![r] = Answered(@, Response(200, [status |-> "reported"]))]
    /\ UNCHANGED <<now, packets, points, bundles, events, rules, notifications>>

----------------------------------------------------------------------------
\* The firmware specification: bundles are published, devices check for
\* updates and report their outcome, time passes.

InitOta ==
    /\ now = 1
    /\ devices \in {[InitialDevices EXCEPT !["uuid:d1"].firmware_version = v]
                    : v \in FirmwareVersions}
    /\ packets = {}
    /\ points = {}
    /\ bundles = <<>>
    /\ events = {}
    /\ rules = ConfiguredRules
    /\ notifications = {}
    /\ req = [r \in Slots |-> IdleReq]

NextOta ==
    \/ Tick
    \/ CreateBundle
    \/ \E r \in Slots :
        \/ gc_Receive(r)
        \/ oc_Receive(r)
        \/ oc_SelectFirmware(r)
        \/ or_Receive(r)
        \/ or_CreateEvent(r)
        \/ or_SaveDevice(r)

SpecOta == InitOta /\ [][NextOta]_vars

----------------------------------------------------------------------------
\* Properties of the firmware endpoints and of alerting.

\* Version order: dot-separated components compared as numbers.
DigitChars == {"0", "1", "2", "3", "4", "5", "6", "7", "8", "9"}
DigitValue(c) ==
    CASE c = "0" -> 0 [] c = "1" -> 1 [] c = "2" -> 2 [] c = "3" -> 3 [] c = "4" -> 4
      [] c = "5" -> 5 [] c = "6" -> 6 [] c = "7" -> 7 [] c = "8" -> 8 [] OTHER -> 9

RECURSIVE AfterFirstDot(_)
AfterFirstDot(s) ==
    IF s = <<>> THEN <<>>
    ELSE IF Head(s) = "." THEN Tail(s) ELSE AfterFirstDot(Tail(s))

RECURSIVE Components(_)
Components(s) ==
    IF \E i \in 1..Len(s) : s[i] = "."
    THEN <<FirstComponent(s)>> \o Components(AfterFirstDot(s))
    ELSE <<s>>

IsNumeral(c) == c # <<>> /\ \A i \in 1..Len(c) : c[i] \in DigitChars

RECURSIVE NumeralValue(_)
NumeralValue(c) ==
    IF c = <<>> THEN 0
    ELSE 10 * NumeralValue(SubSeq(c, 1, Len(c) - 1)) + DigitValue(c[Len(c)])

IsNumericVersion(v) == \A i \in 1..Len(Components(v)) : IsNumeral(Components(v)[i])
VersionNumbers(v) == [i \in 1..Len(Components(v)) |-> NumeralValue(Components(v)[i])]

RECURSIVE NumbersLess(_, _)
NumbersLess(a, b) ==
    IF b = <<>> THEN FALSE
    ELSE IF a = <<>> THEN TRUE
    ELSE \/ Head(a) < Head(b)
         \/ Head(a) = Head(b) /\ NumbersLess(Tail(a), Tail(b))

\* version a is strictly newer than version b
VersionNewer(a, b) ==
    /\ IsNumericVersion(a)
    /\ IsNumericVersion(b)
    /\ NumbersLess(VersionNumbers(b), VersionNumbers(a))

\* the request in slot r is an ota_check that is answered in this step
OtaCheckAnswers(r) ==
    /\ req[r].op = "ota_check"
    /\ req[r].pc = "select_firmware"
    /\ req'[r].pc = "done"

\* C7: ota_check answers available=true only with a bundle that supports the
\* device's model and whose version is strictly newer than the device's
\* firmware version.
C7_OnlyNewerOffered ==
    [][\A r \in Slots :
          (OtaCheckAnswers(r) /\ req'[r].response.body.available) =>
              \E i \in 1..Len(bundles) :
                  /\ bundles[i].version = req'[r].response.body.version
                  /\ req[r].device.model \in bundles[i].supported_models
                  /\ VersionNewer(bundles[i].version, req[r].device.firmware_version)]_vars

\* the bundles that support the device's model on a channel the device is
\* served from, by place in the order of creation
MatchingBundles(device) ==
    { i \in 1..Len(bundles) :
        /\ device.model \in bundles[i].supported_models
        /\ \/ bundles[i].channel = Stable
           \/ bundles[i].channel = FirstComponent(device.firmware_version) }

\* C8: the answer of ota_check is decided by the most recently created
\* matching bundle alone: available=true with its version and hash iff it
\* exists and its version differs from the device's, else available=false
\* with the device's version.
C8_NewestMatchDecides ==
    [][\A r \in Slots :
          OtaCheckAnswers(r) =>
              LET device == req[r].device
                  M == MatchingBundles(device)
              IN  IF M # {} /\ \A i \in M :
                        (\A j \in M : j <= i) => bundles[i].version # device.firmware_version
                  THEN \E i \in M :
                        /\ \A j \in M : j <= i
                        /\ req'[r].response =
                              Response(200, [available |-> TRUE,
                                             version |-> bundles[i].version,
                                             hash |-> bundles[i].hash])
                  ELSE req'[r].response =
                          Response(200, [available |-> FALSE,
                                         current_version |-> device.firmware_version])]_vars

\* a device at 1.0.0 was offered 1.2.0, the newer of two matching bundles
C8_Witness ==
    \E r \in Slots :
        /\ req[r].op = "ota_check"
        /\ req[r].pc = "done"
        /\ req[r].device_id = "d1"
        /\ req[r].response.status = 200
        /\ req[r].response.body.available
        /\ req[r].response.body.version = V120
        /\ devices["uuid:d1"].firmware_version = V100
        /\ Len(bundles) = 2
        /\ bundles[1].version = V100
        /\ bundles[2].version = V120
        /\ \A i \in 1..2 : bundles[i].channel = Stable /\ "X1" \in bundles[i].supported_models

\* two events match the rule and lie within its cooldown window
InOneWindow(rule, e1, e2) ==
    /\ e1 # e2
    /\ RuleMatches(rule, e1)
    /\ RuleMatches(rule, e2)
    /\ e1.created_at - e2.created_at < rule.cooldown_minutes
    /\ e2.created_at - e1.created_at < rule.cooldown_minutes

InCooldown(rule) ==
    \E n \in notifications :
        n.alert_rule = rule.id /\ now - n.created_at < rule.cooldown_minutes

\* C10: when a SystemEvent is created and a matching active rule has no entry
\* within its cooldown window, one pending NotificationQueue entry is created
\* for each channel of the rule.
C10_EventEnqueues ==
    [][\A e \in events' \ events : \A rule \in rules :
          (RuleMatches(rule, e) /\ ~InCooldown(rule)) =>
              \A channel \in rule.notification_channels :
                  Cardinality({n \in notifications' \ notifications :
                                  /\ n.event = e.id
                                  /\ n.alert_rule = rule.id
                                  /\ n.channel = channel
                                  /\ n.status = "pending"}) = 1]_vars

----------------------------------------------------------------------------
\* SystemEventViewSet (src/server/events/views.py, lines 15-48): the
\* operators' actions on SystemEvent rows.  get_object() loads the row and
\* save() writes every column of the loaded instance, in two statements.

\* request.user: AnonymousUser, the owner of the sites of both devices, and a
\* user who owns no site
Users == {"anonymous", "alice", "bob"}

\* lines 22-28: the devices of request.user.sites
UserDevices(user) == IF user = "alice" THEN DeviceIds ELSE {}

\* the primary keys a request may name; no row has the key 9
EventPks == {1, 2, 9}

\* SystemEvent.STATUS_CHOICES
EventStatuses == {"active", "acknowledged", "resolved", "suppressed"}

\* the events that two ota_report requests created before the operators act
InitialEvents ==
    { OtaEvent(1, "uuid:d1", [status |-> "failed", version |-> V120], 1),
      OtaEvent(2, "uuid:d2", [status |-> "completed", version |-> V120], 1) }

\* self.get_object() over get_queryset(): the rows of the user's devices; the
\* set holds the row, and is empty where the lookup raises Http404
GetObject(user, pk) ==
    {e \in events : e.id = pk /\ user # "anonymous" /\ e.device \in UserDevices(user)}

\* event.save()
SaveEvent(event) == {e \in events : e.id # event.id} \cup {event}

\* the request of one detail action once get_object() has run: answered 404,
\* or holding the row it loaded
Loaded(op, user, pk, data) ==
    LET rq == [IdleReq EXCEPT !.op = op, !.user = user, !.data = data]
    IN  IF GetObject(user, pk) = {}
        THEN Answered(rq, Response(404, [detail |-> "Not found."]))
        ELSE [rq EXCEPT !.pc = "save_event",
                        !.event = CHOOSE e \in GetObject(user, pk) : TRUE]

\* the request ends by saving this instance and returning it
se_Save(r, event) ==
    /\ events' = SaveEvent(event)
    /\ req' = [req EXCEPT ![r] = Answered(@, Response(200, [status |-> event.status]))]
    /\ UNCHANGED <<now, devices, packets, points, bundles, rules, notifications>>

\* acknowledge, line 33
acknowledge_GetObject(r) ==
    /\ MayArrive(r)
    /\ \E user \in Users, pk \in EventPks :
          req' = [req EXCEPT ![r] = Loaded("acknowledge", user, pk, [none |-> TRUE])]
    /\ UNCHANGED <<now, devices, packets, points, bundles, events, rules, notifications>>

\* acknowledge, lines 34-37: the status is set whatever it was
acknowledge_Save(r) ==
    /\ req[r].op = "acknowledge"
    /\ req[r].pc = "save_event"
    /\ se_Save(r, [req[r].event EXCEPT !.status = "acknowledged"])

\* request.data of resolve: the key resolved_at absent, a datetime string, or
\* a string that is no datetime
ResolveData == {[resolved_at |-> ts] : ts \in {JNull, TsValid, TsGarbage}}

\* resolve, line 42
resolve_GetObject(r) ==
    /\ MayArrive(r)
    /\ \E user \in Users, pk \in EventPks, data \in ResolveData :
          req' = [req EXCEPT ![r] = Loaded("resolve", user, pk, data)]
    /\ UNCHANGED <<now, devices, packets, points, bundles, events, rules, notifications>>

\* resolve, lines 43-48: resolved_at is what the body carries, None when the
\* key is absent; DateTimeField raises ValidationError in save() for a string
\* that is no datetime, and nothing in the view catches it
resolve_Save(r) ==
    /\ req[r].op = "resolve"
    /\ req[r].pc = "save_event"
    /\ LET given == req[r].data.resolved_at
       IN  IF given.type = "str" /\ ParseDatetime(given.s).outcome # "datetime"
           THEN /\ req' = [req EXCEPT ![r] =
                              Answered(@, ServerError("unhandled ValidationError"))]
                /\ UNCHANGED <<now, devices, packets, points, bundles, events, rules,
                               notifications>>
           ELSE se_Save(r, [req[r].event EXCEPT
                               !.status = "resolved",
                               !.resolved_at = IF given.type = "null" THEN Null
                                               ELSE At(ParseDatetime(given.s).dt),
                               !.resolved_by = req[r].user])

\* the bodies of PATCH: a status of the model's choices or another string
PatchData == {[status |-> st] : st \in EventStatuses \cup {"bogus"}}

\* ModelViewSet.partial_update (line 15): get_object()
partial_update_GetObject(r) ==
    /\ MayArrive(r)
    /\ \E user \in Users, pk \in EventPks, data \in PatchData :
          req' = [req EXCEPT ![r] = Loaded("partial_update", user, pk, data)]
    /\ UNCHANGED <<now, devices, packets, points, bundles, events, rules, notifications>>

\* ModelViewSet.partial_update: the serializer (serializers.py, lines 12-17)
\* refuses a status outside the choices with 400 and writes any other
partial_update_Save(r) ==
    /\ req[r].op = "partial_update"
    /\ req[r].pc = "save_event"
    /\ IF req[r].data.status \notin EventStatuses
       THEN /\ req' = [req EXCEPT ![r] =
                          Answered(@, Response(400, [status |-> "not a valid choice"]))]
            /\ UNCHANGED <<now, devices, packets, points, bundles, events, rules,
                           notifications>>
       ELSE se_Save(r, [req[r].event EXCEPT !.status = req[r].data.status])

\* The operators' specification: two OTA events exist, operators acknowledge,
\* resolve and edit them.
InitEvents ==
    /\ now = 1
    /\ devices = [InitialDevices EXCEPT !["uuid:d2"].firmware_version = V120]
    /\ packets = {}
    /\ points = {}
    /\ bundles = <<>>
    /\ events = InitialEvents
    /\ rules = ConfiguredRules
    /\ notifications = {}
    /\ req = [r \in Slots |-> IdleReq]

NextEvents ==
    \E r \in Slots :
        \/ acknowledge_GetObject(r)
        \/ acknowledge_Save(r)
        \/ resolve_GetObject(r)
        \/ resolve_Save(r)
        \/ partial_update_GetObject(r)
        \/ partial_update_Save(r)

SpecEvents == InitEvents /\ [][NextEvents]_vars

\* C12: over the acknowledge and resolve actions the status of a SystemEvent
\* only moves forward: an active event may move on, an acknowledged event may
\* only become resolved, and a resolved or suppressed event keeps its status
\* (it never returns to acknowledged or active).
C12_StatusMovesForward ==
    [][\A r \in Slots :
          (req[r].op \in {"acknowledge", "resolve"} /\ req[r].pc = "save_event") =>
              \A e \in events : \A f \in events' :
                  (e.id = f.id /\ e.status # f.status) =>
                      \/ e.status = "active"
                      \/ e.status = "acknowledged" /\ f.status = "resolved"]_vars

\* C13: the resolve action leaves the event resolved with resolved_at and
\* resolved_by both set, whatever the body of the request holds.
C13_ResolvedIsStamped ==
    [][\A r \in Slots :
          (req[r].op = "resolve" /\ req[r].pc = "save_event") =>
              \A f \in events' :
                  (f.id = req[r].event.id /\ f.status = "resolved") =>
                      (f.resolved_at # Null /\ f.resolved_by # None)]_vars

----------------------------------------------------------------------------
\* Properties of the device-facing endpoints.

DeviceEndpoints == {"telemetry_batch", "get_config", "ota_check", "ota_report"}

\* the request reached the lookup of its device
LookedUp(rq) ==
    /\ rq.op \in DeviceEndpoints
    /\ rq.device_id # None
    /\ rq.op = "telemetry_batch" => rq.idempotency_key # None

\* the X-Device-ID header names a Device row
NamesDevice(rq) == ParseUUID(rq.device_id) \in DeviceIds

\* C16: a request that names an existing device with a wrong credential is
\* answered 401, and a request that names an unknown device is answered 404.
C16_AuthErrorsDistinguished ==
    \A r \in Slots :
        (req[r].pc = "done" /\ LookedUp(req[r])) =>
            /\ ( /\ NamesDevice(req[r])
                 /\ devices[ParseUUID(req[r].device_id)].api_key # req[r].api_key )
               => req[r].response.status = 401
            /\ ~NamesDevice(req[r]) => req[r].response.status = 404

\* the ota_report request in slot r is answered in this step
OtaReportAnswers(r) ==
    /\ req[r].op = "ota_report"
    /\ req[r].pc \in {"create_event", "save_device"}
    /\ req'[r].pc = "done"

\* C17: ota_report sets the device's firmware_version to the reported version
\* exactly when the status is completed and a version is given: such a report
\* ends with the version written, and no other step of an ota_report request
\* changes the firmware_version of any device.
C17_FirmwareVersionOnCompleted ==
    [][\A r \in Slots :
          (req'[r] # req[r] /\ req'[r].op = "ota_report") =>
              IF /\ OtaReportAnswers(r)
                 /\ req[r].data.status = "completed"
                 /\ req[r].data.version # <<>>
              THEN /\ devices'[req[r].device.id].firmware_version = req[r].data.version
                   /\ \A id \in DeviceIds \ {req[r].device.id} :
                         devices'[id].firmware_version = devices[id].firmware_version
              ELSE \A id \in DeviceIds :
                      devices'[id].firmware_version = devices[id].firmware_version]_vars

\* device d2 reported the completed update to 1.2.0 and runs it now, and a
\* report of a failed update to 1.2.0 left device d1 at 1.0.0
C17_Witness ==
    \E r1, r2 \in Slots :
        /\ req[r1].op = "ota_report" /\ req[r1].pc = "done"
        /\ req[r1].device_id = "d2" /\ req[r1].response.status = 200
        /\ req[r1].data = [status |-> "completed", version |-> V120]
        /\ devices["uuid:d2"].firmware_version = V120
        /\ req[r2].op = "ota_report" /\ req[r2].pc = "done"
        /\ req[r2].device_id = "d1" /\ req[r2].response.status = 200
        /\ req[r2].data = [status |-> "failed", version |-> V120]
        /\ devices["uuid:d1"].firmware_version = V100

\* the statuses the claim names
OutcomeStatuses == {"failed", "rollback", "completed"}

\* the SystemEvent rows this step inserts
Created == events' \ events

\* the ota_report request in slot r passes its SystemEvent.objects.create
OtaReportRecords(r) ==
    /\ req[r].op = "ota_report"
    /\ req[r].pc = "create_event"
    /\ req'[r].pc # "create_event"

\* C18 as claimed: ota_report creates a SystemEvent exactly when the status
\* is failed, rollback or completed; the event is active, of type
\* ota_<status>, of severity high for failed and rollback and low for
\* completed.
C18_EventOnOutcomeOnly ==
    [][\A r \in Slots :
          OtaReportRecords(r) =>
              IF req[r].data.status \in OutcomeStatuses
              THEN \E e \in Created :
                      /\ Created = {e}
                      /\ e.status = "active"
                      /\ e.event_type = OtaEventType(req[r].data.status)
                      /\ e.severity = IF req[r].data.status = "completed"
                                      THEN "low" ELSE "high"
              ELSE Created = {}]_vars

\* C18 as amended: ota_report creates one SystemEvent for every report,
\* whatever its status; the event is active, of the device, of type
\* ota_<status>, of severity high for failed and rollback and low for every
\* other status.
C18_EventOnEveryReport ==
    [][/\ \A r \in Slots :
            OtaReportRecords(r) =>
                \E e \in Created :
                    /\ Created = {e}
                    /\ e.device = req[r].device.id
                    /\ e.status = "active"
                    /\ e.event_type = OtaEventType(req[r].data.status)
                    /\ e.severity = IF req[r].data.status \in {"failed", "rollback"}
                                    THEN "high" ELSE "low"
       /\ Created # {} => \E r \in Slots : OtaReportRecords(r)]_vars

\* a rollback was recorded with severity high and a started update with
\* severity low
C18_Witness ==
    \E e1, e2 \in events :
        /\ e1.event_type = "ota_rollback" /\ e1.severity = "high" /\ e1.status = "active"
        /\ e2.event_type = "ota_started" /\ e2.severity = "low" /\ e2.status = "active"

----------------------------------------------------------------------------
\* The devices' specification: requests to the four device-facing endpoints
\* run side by side (no firmware bundle is published).

NextMixed ==
    \E r \in Slots :
        \/ tb_Receive(r)
        \/ tb_CheckDuplicate(r)
        \/ tb_CreatePacket(r)
        \/ tb_ProcessItem(r)
        \/ tb_SavePacket(r)
        \/ tb_SaveDevice(r)
        \/ gc_Receive(r)
        \/ oc_Receive(r)
        \/ oc_SelectFirmware(r)
        \/ or_Receive(r)
        \/ or_CreateEvent(r)
        \/ or_SaveDevice(r)

SpecMixed == Init /\ [][NextMixed]_vars

\* C19: in every interleaving, a telemetry_batch request changes no column of
\* a Device row but last_seen and an ota_report request changes none but
\* firmware_version (neither writes back the older value of the other's
\* column).
C19_OwnColumnOnly ==
    [][\A r \in Slots : \A id \in DeviceIds :
          /\ req[r].pc = "save_device"
          /\ req'[r].pc = "done"
          => IF req[r].op = "telemetry_batch"
             THEN devices'[id] = [devices[id] EXCEPT !.last_seen = devices'[id].last_seen]
             ELSE devices'[id] =
                    [devices[id] EXCEPT !.firmware_version = devices'[id].firmware_version]]_vars

\* C21: TelemetryPoint rows are append-only: every row that is there stays
\* there as it is, whatever request of a device takes a step.
C21_PointsAppendOnly ==
    [][points \subseteq points']_vars

\* two requests of one device wrote the same metric one after the other, and
\* the points of both are there
C21_Witness ==
    \E pt1, pt2 \in points :
        /\ pt1.req # pt2.req
        /\ pt1.device = pt2.device
        /\ pt1.metric = pt2.metric
        /\ \A r \in Slots : req[r].pc = "done"

\* the request was refused: telemetry_batch with a client error or an auth
\* error, another endpoint with not found
Refused(rq) ==
    \/ rq.op = "telemetry_batch" /\ rq.response.status \in {400, 401}
    \/ rq.op \in {"get_config", "ota_check", "ota_report"} /\ rq.response.status = 404

\* C22: a request that is refused has no side effects: the step that refuses
\* it changes no Device, TelemetryPacket, TelemetryPoint or SystemEvent row,
\* no row was written by the request before, and every step of a request that
\* changes a Device row is the end of a request answered 200.
C22_RefusedHasNoEffect ==
    [][\A r \in Slots :
          /\ (req[r].pc # "done" /\ req'[r].pc = "done" /\ Refused(req'[r])) =>
                /\ devices' = devices
                /\ packets' = packets
                /\ points' = points
                /\ events' = events
                /\ PacketsBy(r) = {}
                /\ PointsBy(r) = {}
                /\ \A e \in events : e.id # r
          /\ (req'[r] # req[r] /\ devices' # devices) =>
                (req'[r].pc = "done" /\ req'[r].response.status = 200)]_vars

\* a batch was refused for its digest and a report for its credential, and
\* the tables are as they were at the start
C22_Witness ==
    \E r1, r2 \in Slots :
        /\ req[r1].op = "telemetry_batch" /\ req[r1].pc = "done"
        /\ req[r1].response = Response(400, [error |-> "Content-SHA256 mismatch"])
        /\ req[r2].op = "ota_report" /\ req[r2].pc = "done"
        /\ req[r2].response.status = 404
        /\ packets = {} /\ points = {} /\ events = {}
        /\ devices = InitialDevices

\* C23: the body of a telemetry_batch answer that reports a failure is a fixed
\* message, the same whatever exception was raised and whatever its text is:
\* any two requests answered with a server error have the same body.
C23_NoErrorDetail ==
    \A r1, r2 \in Slots :
        ( /\ req[r1].op = "telemetry_batch" /\ req[r1].pc = "done"
          /\ req[r2].op = "telemetry_batch" /\ req[r2].pc = "done"
          /\ req[r1].response.status = 500
          /\ req[r2].response.status = 500 )
        => req[r1].response.body = req[r2].response.body

----------------------------------------------------------------------------
\* FirmwareBundleViewSet.devices (src/server/devices/views.py, lines 61-74)

V190 == <<"1", ".", "9", ".", "0">>
V1100 == <<"1", ".", "1", "0", ".", "0">>

\* the versions the devices of the fleet run and the published bundles carry
FleetVersions == {V100, V190, V1100}

\* the code point of a character
Ord(c) ==
    CASE c = "." -> 46
      [] c \in DigitChars -> 48 + DigitValue(c)
      [] c = "a" -> 97 [] c = "b" -> 98 [] c = "e" -> 101
      [] c = "l" -> 108 [] c = "s" -> 115 [] OTHER -> 116

\* a < b on CharField values: the strings are compared character by character
RECURSIVE StrLess(_, _)
StrLess(a, b) ==
    IF b = <<>> THEN FALSE
    ELSE IF a = <<>> THEN TRUE
    ELSE \/ Ord(Head(a)) < Ord(Head(b))
         \/ Head(a) = Head(b) /\ StrLess(Tail(a), Tail(b))

\* lines 69-72: Device.objects.filter(model__in=firmware.supported_models,
\* firmware_version__lt=firmware.version)
CompatibleDevices(firmware) ==
    { id \in DeviceIds :
        /\ devices[id].model \in firmware.supported_models
        /\ StrLess(devices[id].firmware_version, firmware.version) }

\* the primary keys a request may name; a bundle's key is its place in the
\* order of creation
BundlePks == 1..(MaxBundles + 1)

\* lines 65-74: get_object() answers 404 for a key that no bundle has; the
\* serialized devices are listed by their ids
fb_Devices(r) ==
    /\ MayArrive(r)
    /\ \E pk \in BundlePks :
        LET rq == [IdleReq EXCEPT !.op = "firmware_devices", !.pk = pk]
        IN  req' = [req EXCEPT ![r] =
                IF pk \notin 1..Len(bundles)
                THEN Answered(rq, Response(404, [detail |-> "Not found."]))
                ELSE Answered(rq, Response(200, [devices |-> CompatibleDevices(bundles[pk])]))]
    /\ UNCHANGED <<now, devices, packets, points, bundles, events, rules, notifications>>

\* the FirmwareBundle rows that were published: their versions are unique
PublishedBundles ==
    { bs \in UNION {[1..n -> [version : FleetVersions, hash : {[image |-> "bin"]},
                              channel : {Stable}, supported_models : SupportedModels]]
                    : n \in 0..MaxBundles} :
        \A i, j \in 1..Len(bs) : bs[i].version = bs[j].version => i = j }

\* The fleet specification: the devices run some versions, some bundles are
\* published, operators ask which devices a bundle is for.
InitFleet ==
    /\ now = 1
    /\ devices \in {[id \in DeviceIds |-> [InitialDevices[id] EXCEPT !.firmware_version = v[id]]]
                    : v \in [DeviceIds -> FleetVersions]}
    /\ bundles \in PublishedBundles
    /\ packets = {}
    /\ points = {}
    /\ events = {}
    /\ rules = {}
    /\ notifications = {}
    /\ req = [r \in Slots |-> IdleReq]

NextFleet == \E r \in Slots : fb_Devices(r)

SpecFleet == InitFleet /\ [][NextFleet]_vars

\* C24: the devices listed for a bundle are exactly those whose model the
\* bundle supports and whose firmware version the bundle's version strictly
\* exceeds in version order (components compared as numbers): a device at
\* 1.9.0 is listed for bundle 1.10.0, a device at 1.10.0 is not listed for
\* bundle 1.9.0.
C24_ListedByVersionOrder ==
    \A r \in Slots :
        ( /\ req[r].op = "firmware_devices"
          /\ req[r].pc = "done"
          /\ req[r].response.status = 200 )
        => req[r].response.body.devices =
              { id \in DeviceIds :
                  /\ devices[id].model \in bundles[req[r].pk].supported_models
                  /\ VersionNewer(bundles[req[r].pk].version,
                                  devices[id].firmware_version) }

----------------------------------------------------------------------------
\* Further properties of ingestion.

\* C25: when a submission is answered as a duplicate, the ledger row of its
\* (device, upload id) is processed: the original batch has finished.
C25_DuplicateMeansProcessed ==
    [][\A r \in Slots :
          ( /\ req[r].op = "telemetry_batch"
            /\ req[r].pc = "check_duplicate"
            /\ req'[r].pc = "done"
            /\ req'[r].response = DuplicateResponse )
          => Processed(req[r].device_id, req[r].idempotency_key)]_vars

\* C26: a request refused for its body (not a list, or a digest that does not
\* match) leaves no ledger row, so it does not use up its idempotency key: a
\* later request of the same device with the same upload id, the refused one
\* being the only other request of the pair, is not answered as a duplicate;
\* it goes on to insert the ledger row unless its own body is refused.
C26_RefusedKeepsKey ==
    [][\A r, q \in Slots :
          ( /\ q # r
            /\ SamePair(q, r)
            /\ req[q].pc = "done"
            /\ req[q].response.status = 400
            /\ \A o \in Slots \ {q, r} : ~SamePair(o, r) )
          => /\ PacketsBy(q) = {}
             /\ ( req[r].pc = "check_duplicate" /\ req'[r] # req[r] ) =>
                   /\ req'[r].response # DuplicateResponse
                   /\ \/ req'[r].pc = "create_packet"
                      \/ req'[r].response.status = 400
             /\ req[r].pc = "create_packet" =>
                   UniqueTogether(req[r].device.id, ParseUUID(req[r].idempotency_key))]_vars

\* a submission was refused for its body, and the next one of the same device
\* with the same upload id was processed as a first submission and wrote
\* points
C26_Witness ==
    \E r, q \in Slots :
        /\ q < r
        /\ SamePair(q, r)
        /\ req[q].pc = "done"
        /\ req[q].response.status = 400
        /\ req[r].pc = "done"
        /\ req[r].response.status = 200
        /\ req[r].response.body.duplicates = 0
        /\ PointsBy(r) # {}
        /\ \E p \in PacketsBy(r) : p.status = "processed"

\* C27: a batch that carries a Content-SHA256 header is never accepted
\* unverified: the checksum of every ledger row that has one is the digest of
\* the payload of the request that inserted the row.
C27_NeverAcceptedUnverified ==
    \A p \in packets :
        p.checksum # NoContentSha =>
            p.checksum = Sha256(ListBody(req[p.id].batch_len))

----------------------------------------------------------------------------
\* The update loop of a device against ota_check and ota_report
\* (src/server/iot/views.py, lines 181-260)

VBeta1 == <<"b", "e", "t", "a", ".", "1">>

\* the versions of the rollout (FirmwareBundle.version is free text)
RolloutVersions == {V100, V120, VBeta1}

\* the FirmwareBundle rows of the rollout, fixed while the devices update
RolloutBundles ==
    { bs \in UNION {[1..n -> [version : RolloutVersions, hash : {[image |-> "bin"]},
                              channel : BundleChannels,
                              supported_models : SupportedModels]]
                    : n \in 0..MaxBundles} :
        \A i, j \in 1..Len(bs) : bs[i].version = bs[j].version => i = j }

\* the headers the devices send, one device per connection
LoopHeaders ==
    <<[device_id |-> "d1", api_key |-> "k1"], [device_id |-> "d2", api_key |-> "k2"]>>

LoopSlots == Slots \cap DOMAIN LoopHeaders

\* lines 185-209: the device asks for an update; the request is atomic here,
\* one device uses one connection and sends one request at a time
dl_Check(r) ==
    /\ r \in LoopSlots
    /\ \/ req[r].pc = "idle"
       \/ req[r].pc = "done" /\ req[r].op = "ota_report"
       \/ req[r].pc = "done" /\ req[r].op = "ota_check" /\ ~req[r].response.body.available
    /\ LET h == LoopHeaders[r]
           got == GetDevice(h.device_id, h.api_key)
           rq == [IdleReq EXCEPT !.op = "ota_check", !.device_id = h.device_id,
                                 !.api_key = h.api_key]
       IN  req' = [req EXCEPT ![r] = Answered(rq, OtaCheckResponse(got.device))]
    /\ UNCHANGED <<now, devices, packets, points, bundles, events, rules, notifications>>

\* lines 222-254: the device was offered a version, has applied it and reports
\* status completed with that version
dl_Report(r) ==
    /\ r \in LoopSlots
    /\ req[r].pc = "done"
    /\ req[r].op = "ota_check"
    /\ req[r].response.body.available
    /\ Cardinality(events) < MaxReports
    /\ LET h == LoopHeaders[r]
           got == GetDevice(h.device_id, h.api_key)
           data == [status |-> "completed", version |-> req[r].response.body.version]
           rq == [IdleReq EXCEPT !.op = "ota_report", !.device_id = h.device_id,
                                 !.api_key = h.api_key, !.data = data]
       IN  /\ events' = events \cup
                  {OtaEvent(Cardinality(events) + 1, got.device.id, data, now)}
           /\ devices' = IF UpdatesFirmware(data)
                         THEN SaveDevice([got.device EXCEPT !.firmware_version = data.version])
                         ELSE devices
           /\ req' = [req EXCEPT ![r] = Answered(rq, Response(200, [status |-> "reported"]))]
    /\ UNCHANGED <<now, packets, points, bundles, rules, notifications>>

InitLoop ==
    /\ now = 1
    /\ devices \in {[id \in DeviceIds |-> [InitialDevices[id] EXCEPT !.firmware_version = v[id]]]
                    : v \in [DeviceIds -> RolloutVersions]}
    /\ bundles \in RolloutBundles
    /\ packets = {}
    /\ points = {}
    /\ events = {}
    /\ rules = {}
    /\ notifications = {}
    /\ req = [r \in Slots |-> IdleReq]

NextLoop == \E r \in Slots : dl_Check(r) \/ dl_Report(r)

SpecLoop == InitLoop /\ [][NextLoop]_vars

\* C28: with the bundles fixed, the versions a device is offered and reports
\* completed never cycle: no device reports the same version twice (so the
\* device comes to an answer available=false and stays there).
C28_OfferedNeverCycles ==
    \A e, f \in events :
        ( /\ e.device = f.device
          /\ e.event_type = "ota_completed"
          /\ f.event_type = "ota_completed"
          /\ e.ota_version = f.ota_version )
        => e.id = f.id

----------------------------------------------------------------------------
\* Ingestion with a database that may fail: a save() of lines 125-133 raises
\* (connection lost, statement timeout), and the outer handler of lines
\* 141-145 answers.

DatabaseErrorText == "OperationalError: server closed the connection unexpectedly"

\* lines 125-129 and 141-145: packet.save() raises; the row stays as it is
tb_SavePacketFails(r) ==
    /\ req[r].op = "telemetry_batch"
    /\ req[r].pc = "process_items"
    /\ req[r].remaining = 0
    /\ req' = [req EXCEPT ![r] = Answered(@, ServerError(DatabaseErrorText))]
    /\ UNCHANGED <<now, devices, packets, points, bundles, events, rules, notifications>>

\* lines 131-133 and 141-145: device.save() raises
tb_SaveDeviceFails(r) ==
    /\ req[r].op = "telemetry_batch"
    /\ req[r].pc = "save_device"
    /\ req' = [req EXCEPT ![r] = Answered(@, ServerError(DatabaseErrorText))]
    /\ UNCHANGED <<now, devices, packets, points, bundles, events, rules, notifications>>

NextFaults ==
    \E r \in Slots :
        \/ tb_Receive(r)
        \/ tb_CheckDuplicate(r)
        \/ tb_CreatePacket(r)
        \/ tb_ProcessItem(r)
        \/ tb_SavePacket(r)
        \/ tb_SaveDevice(r)
        \/ tb_SavePacketFails(r)
        \/ tb_SaveDeviceFails(r)

SpecFaults == Init /\ [][NextFaults]_vars

\* C29: once a telemetry_batch request has been answered, the ledger row it
\* inserted is not in status processing: it is processed or failed, whatever
\* failure the request met after the insert.
C29_NoRowLeftProcessing ==
    \A r \in Slots :
        (req[r].op = "telemetry_batch" /\ req[r].pc = "done") =>
            \A p \in PacketsBy(r) : p.status \in {"processed", "failed"}

\* the ledger has a row of the request's own device with its upload id
OwnRow(rq) ==
    \E p \in packets :
        /\ p.device = rq.device.id
        /\ p.upload_id = ParseUUID(rq.idempotency_key)

\* C30: idempotency keys are scoped per device: a request whose own device
\* has no ledger row with its upload id is not answered as a duplicate and
\* inserts its own row, whatever rows other devices have with that upload id.
C30_KeysScopedPerDevice ==
    [][\A r \in Slots :
          ( /\ req[r].op = "telemetry_batch"
            /\ req[r].pc \in {"check_duplicate", "create_packet"}
            /\ ParseUUID(req[r].idempotency_key) # InvalidUUID
            /\ ~OwnRow(req[r])
            /\ req'[r] # req[r] )
          => /\ req'[r].response # DuplicateResponse
             /\ req[r].pc = "check_duplicate" =>
                   \/ req'[r].pc = "create_packet"
                   \/ req'[r].response.status = 400
             /\ req[r].pc = "create_packet" =>
                   /\ req'[r].pc = "process_items"
                   /\ \E p \in packets' \ packets :
                         /\ p.id = r
                         /\ p.device = req[r].device.id
                         /\ p.upload_id = ParseUUID(req[r].idempotency_key)]_vars

\* two devices submitted the same upload id; both were processed as first
\* submissions and have their own processed rows
C30_Witness ==
    \E r1, r2 \in Slots :
        /\ r1 # r2
        /\ req[r1].pc = "done" /\ req[r2].pc = "done"
        /\ req[r1].response.status = 200 /\ req[r2].response.status = 200
        /\ ~req[r1].replay /\ ~req[r2].replay
        /\ \E p1 \in PacketsBy(r1), p2 \in PacketsBy(r2) :
              /\ p1.device # p2.device
              /\ p1.upload_id = p2.upload_id
              /\ p1.status = "processed" /\ p2.status = "processed"

====
